---- MODULE Spec2Model ----
(***************************************************************************)
(* Verification model of the adaptive learning platform:                   *)
(*   - the Quiz component (level engine, scoring, emotion capture,         *)
(*     results branching) of the React frontend,                           *)
(*   - the chat endpoints and the WebSocket relay of the Express backend.  *)
(***************************************************************************)
EXTENDS Integers, Sequences, FiniteSets, TLC

VARIABLES
    \* ---- harness for the pure functions of the Quiz component ----
    callArgs,           \* arguments of the call under test
    callRet,            \* <<>> before the call, <<value>> after it
    \* ---- Quiz component state (useState hooks) ----
    page,               \* route that is mounted: "quiz", "review", "subject", "dashboard"
    loading,
    error,              \* "null" or the kind of message set by setError
    showResults,
    questions,          \* sequence of correctAnswer, one per question
    currentQuestion,    \* 0-based index
    selectedAnswers,    \* function: answered question index -> option
    score,              \* NoScore (null) or 0..100
    selectedEmotion,
    detectedEmotion,
    emotionDetections,
    webcamActive,
    captureOn,          \* captureIntervalRef.current holds a running interval
    sampleInFlight,     \* detect-emotion requests sent by the interval callback, not yet answered
    currentLevel,
    presentLevel,
    nextLevel,
    consecutiveFailures,
    locState,           \* the level carried by location.state (0: none)
    quizProgress,       \* localStorage quizProgress_<subtopicId>: <<>> or <<the saved progress>>
    lastQuizRequest,    \* level parameter of the latest quiz request (0: none)
    \* ---- backend collections touched by the quiz ----
    results,            \* UserQuiz.results of the (user, subject, subtopic) triple
    qip,                \* QuizInProgress records of the triple
    \* ---- history of the quiz session (for stating properties) ----
    sessLog,            \* the session's quiz requests, submissions and reviews
    submitReadings,     \* the readings collected when handleSubmit was last called
    \* ---- chat backend ----
    assignments,        \* TherapistAssignment collection
    messages,           \* Message collection, in creation order
    clients,            \* the connection registry (Map)
    sockets,            \* WebSocket connections accepted by the server
    httpLog,            \* the last HTTP exchange of the chat endpoints
    \* ---- quiz endpoints of the backend, request by request ----
    userQuizzes,        \* UserQuiz documents of the triple, in creation order
    requests            \* the requests received, in the order of their first query

levelVars == <<callArgs, callRet>>
componentVars == <<page, loading, error, showResults, questions, currentQuestion,
                   selectedAnswers, score, selectedEmotion, detectedEmotion,
                   emotionDetections, webcamActive, captureOn, currentLevel,
                   presentLevel, nextLevel, consecutiveFailures, locState,
                   quizProgress, lastQuizRequest, results, sessLog,
                   submitReadings, sampleInFlight>>
quizVars == <<componentVars, qip>>
chatVars == <<assignments, messages, clients, sockets, httpLog>>
storeVars == <<userQuizzes, requests>>
vars == <<levelVars, quizVars, chatVars, storeVars>>

(***************************************************************************)
(* Bounds of the model                                                     *)
(***************************************************************************)
MaxQuestions == 3       \* longest quiz whose answers are enumerated in full
MaxWideQuestions == 40  \* longest quiz of the scoring harness
MaxReadings == 3        \* emotion samples kept per quiz
MaxAttempts == 3        \* submissions per quiz session
MaxMessages == 2        \* messages stored by the chat backend
MaxSockets == 2         \* WebSocket connections accepted
MaxFrames == 1          \* message frames relayed over WebSocket
MaxInFlight == 1        \* detect-emotion requests awaiting their response
MaxFetches == 2         \* chat history requests beside the sends
MaxRequests == 4        \* requests received by the quiz endpoints of the backend
MaxSubtopics == 2       \* subtopics of the subjects shown on the performance page
MaxSubtopicAttempts == 2    \* attempts of one subtopic in the quiz history
MaxWideSubtopics == 40  \* subtopics of the long, single-attempt histories

(***************************************************************************)
(* Level engine                                                            *)
(***************************************************************************)
Emotions == {"happy", "sad", "angry", "neutral", "confused", "excited"}

Levels == 1..10

Scores == 0..100

Max(a, b) == IF a >= b THEN a ELSE b

Min(a, b) == IF a <= b THEN a ELSE b

calculateNewLevel_noFloor(level, sc, emotion) ==
    LET scoreChange == IF sc >= 80 THEN 2 ELSE IF sc < 50 THEN -1 ELSE 0
        emotionChange == CASE emotion = "happy" -> 1
                           [] emotion = "sad" -> -1
                           [] emotion = "angry" -> -1
                           [] emotion = "confused" -> -1
                           [] emotion = "excited" -> 1
                           [] OTHER -> 0
    IN  Min(10, level + scoreChange + emotionChange)

calculateNewLevel_strictHigh(level, sc, emotion) ==
    LET scoreChange == IF sc > 80 THEN 2 ELSE IF sc < 50 THEN -1 ELSE 0
        emotionChange == CASE emotion = "happy" -> 1
                           [] emotion = "sad" -> -1
                           [] emotion = "angry" -> -1
                           [] emotion = "confused" -> -1
                           [] emotion = "excited" -> 1
                           [] OTHER -> 0
    IN  Max(1, Min(10, level + scoreChange + emotionChange))

calculateNewLevel(level, sc, emotion) ==
    LET scoreChange == IF sc >= 80 THEN 2 ELSE IF sc < 50 THEN -1 ELSE 0
        emotionChange == CASE emotion = "happy" -> 1
                           [] emotion = "sad" -> -1
                           [] emotion = "angry" -> -1
                           [] emotion = "confused" -> -1
                           [] emotion = "excited" -> 1
                           [] OTHER -> 0
        levelChange == scoreChange + emotionChange
    IN  Max(1, Min(10, level + levelChange))

(***************************************************************************)
(* IEEE-754 double arithmetic, as far as calculateScore needs it.          *)
(* TLC's integers are 32 bits wide, so a 53-bit significand is kept as     *)
(* three limbs <<a, b, c>> of value a * 2^36 + b * 2^18 + c.               *)
(***************************************************************************)
RECURSIVE Pow2(_)
Pow2(k) == IF k = 0 THEN 1 ELSE 2 * Pow2(k - 1)

LimbBase == Pow2(18)

RECURSIVE BitLen(_)
BitLen(k) == IF k = 0 THEN 0 ELSE 1 + BitLen(k \div 2)

RECURSIVE LeadingShift(_, _)
LeadingShift(num, den) == IF num >= den THEN 0 ELSE 1 + LeadingShift(2 * num, den)

\* limbs + inc, for 0 <= inc < LimbBase
LimbsAdd(limbs, inc) ==
    LET c == limbs[3] + inc
        b == limbs[2] + (c \div LimbBase)
        a == limbs[1] + (b \div LimbBase)
    IN  <<a, b % LimbBase, c % LimbBase>>

\* limbs rounded to a multiple of 2^drop: to nearest, ties to even
LimbsRound(limbs, drop) ==
    LET unit == Pow2(drop)
        low == limbs[3] % unit
        kept == <<limbs[1], limbs[2], limbs[3] - low>>
        odd == (limbs[3] \div unit) % 2 = 1
        up == 2 * low > unit \/ (2 * low = unit /\ odd)
    IN  IF drop = 0 \/ ~up THEN kept ELSE LimbsAdd(kept, unit)

\* the double nearest to num / den, for 0 < num <= den: [m |-> limbs, s |-> shift],
\* of value m * 2^(-s - 52)
DoubleDivide(num, den) ==
    LET s == LeadingShift(num, den)
        t1 == num * Pow2(s) * Pow2(16)
        t2 == (t1 % den) * LimbBase
        t3 == (t2 % den) * LimbBase
        rem == t3 % den
        q == <<t1 \div den, t2 \div den, t3 \div den>>
        up == 2 * rem > den \/ (2 * rem = den /\ q[3] % 2 = 1)
    IN  [m |-> IF up THEN LimbsAdd(q, 1) ELSE q, s |-> s]

\* the double nearest to x * k, for a small integer k
DoubleTimes(x, k) ==
    LET p3 == x.m[3] * k
        p2 == x.m[2] * k + (p3 \div LimbBase)
        p1 == x.m[1] * k + (p2 \div LimbBase)
        exact == <<p1, p2 % LimbBase, p3 % LimbBase>>
        drop == BitLen(p1) + 36 - 53
    IN  [m |-> IF drop > 0 THEN LimbsRound(exact, drop) ELSE exact, s |-> x.s]

\* Math.round of a double in [1, 2^24): floor(x + 0.5)
MathRound(x) ==
    LET intPart == x.m[1] \div Pow2(16 + x.s)
        halfBit == (x.m[1] \div Pow2(15 + x.s)) % 2
    IN  intPart + halfBit

\* The percentage as the code computes it: Math.round((correct / total) * 100)
RoundedPercent(correct, total) ==
    IF correct = 0 THEN 0
    ELSE MathRound(DoubleTimes(DoubleDivide(correct, total), 100))

(***************************************************************************)
(* Scoring                                                                 *)
(***************************************************************************)
Options == {"A", "B"}

\* questions.forEach((question, index) => ...): the number of indices from
\* index on whose selected answer is the question's correctAnswer
RECURSIVE CountCorrect(_, _, _)
CountCorrect(qs, answers, index) ==
    IF index >= Len(qs) THEN 0
    ELSE (IF index \in DOMAIN answers /\ answers[index] = qs[index + 1] THEN 1 ELSE 0)
         + CountCorrect(qs, answers, index + 1)

calculateScore(qs, answers) ==
    RoundedPercent(CountCorrect(qs, answers, 0), Len(qs))

(***************************************************************************)
(* Most frequent emotion                                                   *)
(***************************************************************************)
ErrorSentinels ==
    {"No Face Detected", "Landmark Error", "Coord Count Error", "Prediction Error"}

\* freq[e] after the forEach over emotions
EmotionCount(emotions, e) ==
    Cardinality({i \in 1..Len(emotions) : emotions[i] = e})

\* Object.entries(freq) lists the keys in the order of their first insertion
FirstIndex(emotions, e) ==
    CHOOSE i \in 1..Len(emotions) :
        emotions[i] = e /\ \A j \in 1..(i - 1) : emotions[j] # e

getMostFrequentEmotion(emotions) ==
    LET counted == {emotions[i] : i \in 1..Len(emotions)} \ ErrorSentinels
        \* count > max: the first key with the greatest count wins
        best == CHOOSE e \in counted :
                    \A o \in counted :
                        \/ EmotionCount(emotions, e) > EmotionCount(emotions, o)
                        \/ /\ EmotionCount(emotions, e) = EmotionCount(emotions, o)
                           /\ FirstIndex(emotions, e) <= FirstIndex(emotions, o)
    IN  IF counted = {} THEN "neutral" ELSE best

(***************************************************************************)
(* Quiz component: state after mount, effects                              *)
(***************************************************************************)
NoScore == -1   \* useState(null) of score

\* the quizzes the quiz endpoint answers with (the correctAnswer of each question)
QuizPool == {<<"A", "B">>}

\* the readings the emotion endpoint answers with
SampleEmotions == {"happy", "sad"}

\* `!score`: null and 0 are both falsy
ScoreFalsy(sc) == sc = NoScore \/ sc = 0

\* the quiz, navigation and webcam are rendered (none of the early returns is taken)
QuizViewShown == page = "quiz" /\ ~loading /\ error = "null" /\ ~showResults

ResultsShown == page = "quiz" /\ ~loading /\ error = "null" /\ showResults

Submissions(log) == {i \in 1..Len(log) : log[i].kind = "submit"}

Fetches(log) == {i \in 1..Len(log) : log[i].kind = "fetch"}

LogEntry(kind, level, sc, emotion, present, next, ok) ==
    [kind |-> kind, level |-> level, score |-> sc, emotion |-> emotion,
     presentLevel |-> present, nextLevel |-> next, ok |-> ok]

\* every useState of a freshly mounted Quiz
QuizState(isLoading) ==
    /\ loading' = isLoading
    /\ error' = "null"
    /\ showResults' = FALSE
    /\ questions' = <<>>
    /\ currentQuestion' = 0
    /\ selectedAnswers' = <<>>
    /\ score' = NoScore
    /\ selectedEmotion' = "neutral"
    /\ detectedEmotion' = "null"
    /\ emotionDetections' = <<>>
    /\ webcamActive' = FALSE
    /\ captureOn' = FALSE
    /\ currentLevel' = 5
    /\ presentLevel' = 5
    /\ nextLevel' = 5
    /\ consecutiveFailures' = 0

MountQuiz(stateLevel) ==
    /\ page' = "quiz"
    /\ locState' = stateLevel
    /\ sampleInFlight' = 0
    /\ QuizState(TRUE)

\* leaving the route unmounts the component: its state is gone, a response that
\* arrives later sets nothing, and the next mount starts from the useState
\* defaults again
UnmountQuiz(route, carried) ==
    /\ page' = route
    /\ locState' = carried
    /\ sampleInFlight' = 0
    /\ QuizState(FALSE)

\* The capture effect, run for the render that ends a handler: the cleanup clears
\* the interval; the body restarts it and empties the readings when
\* questions.length > 0 && !score && !loading.
CaptureRuns(qs, sc, isLoading) == Len(qs) > 0 /\ ScoreFalsy(sc) /\ ~isLoading

(***************************************************************************)
(* Backend: quiz results and quizzes in progress of the triple             *)
(***************************************************************************)
\* quizResultSchema: the validation run by userQuiz.save()
QuizResultValid(rec) == rec.emotion \in Emotions

\* POST /api/quiz-in-progress
SaveQuizInProgress(recs, level) ==
    IF \E i \in 1..Len(recs) : ~recs[i].attempted
    THEN LET i == CHOOSE k \in 1..Len(recs) :
                      ~recs[k].attempted /\ \A j \in 1..(k - 1) : recs[j].attempted
         IN  [recs EXCEPT ![i].level = level]
    ELSE Append(recs, [level |-> level, attempted |-> FALSE])

\* POST /api/quiz-in-progress/complete, sent without a level
CompleteQuizInProgress(recs) ==
    IF \E i \in 1..Len(recs) : ~recs[i].attempted
    THEN LET i == CHOOSE k \in 1..Len(recs) :
                      ~recs[k].attempted /\ \A j \in 1..(k - 1) : recs[j].attempted
         IN  [recs EXCEPT ![i].attempted = TRUE]
    ELSE Append(recs, [level |-> 1, attempted |-> TRUE])

\* GET .../quiz: the level the questions are generated for, given the level
\* query parameter (0: absent)
quizEndpoint_level(level) ==
    LET chosen == IF level # 0 THEN level ELSE 5
    IN  IF chosen < 1 \/ chosen > 10 THEN 5 ELSE chosen

(***************************************************************************)
(* Quiz component: loading the first quiz                                  *)
(***************************************************************************)
FetchOutcomes == {"ok", "subjectFailed", "subtopicMissing", "quizFailed", "invalid"}

fetchQuiz_level(stateLevel, progress) ==
    IF stateLevel # 0 THEN stateLevel
    ELSE IF progress # <<>> THEN progress[1].level
    ELSE 5

FetchQuiz ==
    /\ page = "quiz" /\ loading
    /\ Cardinality(Fetches(sessLog)) < MaxAttempts
    /\ \E outcome \in FetchOutcomes, qs \in QuizPool :
        LET quizLevel == fetchQuiz_level(locState, quizProgress)
            reached == outcome \in {"ok", "quizFailed", "invalid"}
            levelSet == outcome = "ok" \/ (reached /\ (locState # 0 \/ quizProgress # <<>>))
        IN  /\ loading' = FALSE
            /\ error' = IF outcome = "ok" THEN "null" ELSE outcome
            /\ questions' = IF outcome = "ok" THEN qs ELSE questions
            /\ currentLevel' = IF levelSet THEN quizLevel ELSE currentLevel
            /\ lastQuizRequest' = IF reached THEN quizLevel ELSE lastQuizRequest
            /\ sessLog' = IF reached
                          THEN Append(sessLog, LogEntry("fetch", quizEndpoint_level(quizLevel),
                                                        NoScore, "null",
                                                        0, 0, outcome = "ok"))
                          ELSE sessLog
            /\ webcamActive' = (outcome = "ok" \/ webcamActive)
            /\ captureOn' = (outcome = "ok")
    /\ UNCHANGED <<page, showResults, currentQuestion, selectedAnswers, score,
                   selectedEmotion, detectedEmotion, emotionDetections, presentLevel,
                   nextLevel, consecutiveFailures, locState, quizProgress, results, qip,
                   submitReadings, sampleInFlight, levelVars, chatVars, storeVars>>

(***************************************************************************)
(* Quiz component: answering                                               *)
(***************************************************************************)
handleAnswerSelect(questionIndex, answer) ==
    /\ QuizViewShown /\ Len(questions) > 0
    /\ questionIndex = currentQuestion
    /\ selectedAnswers' = [i \in DOMAIN selectedAnswers \cup {questionIndex} |->
                              IF i = questionIndex THEN answer ELSE selectedAnswers[i]]
    /\ UNCHANGED <<page, loading, error, showResults, questions, currentQuestion, score,
                   selectedEmotion, detectedEmotion, emotionDetections, webcamActive,
                   captureOn, currentLevel, presentLevel, nextLevel, consecutiveFailures,
                   locState, quizProgress, lastQuizRequest, results, qip, sessLog,
                   submitReadings, sampleInFlight, levelVars, chatVars, storeVars>>

AnswerSelect == \E answer \in Options : handleAnswerSelect(currentQuestion, answer)

NextQuestion ==
    /\ QuizViewShown /\ currentQuestion < Len(questions) - 1
    /\ currentQuestion' = currentQuestion + 1
    /\ UNCHANGED <<page, loading, error, showResults, questions, selectedAnswers, score,
                   selectedEmotion, detectedEmotion, emotionDetections, webcamActive,
                   captureOn, currentLevel, presentLevel, nextLevel, consecutiveFailures,
                   locState, quizProgress, lastQuizRequest, results, qip, sessLog,
                   submitReadings, sampleInFlight, levelVars, chatVars, storeVars>>

PreviousQuestion ==
    /\ QuizViewShown /\ Len(questions) > 0 /\ currentQuestion # 0
    /\ currentQuestion' = currentQuestion - 1
    /\ UNCHANGED <<page, loading, error, showResults, questions, selectedAnswers, score,
                   selectedEmotion, detectedEmotion, emotionDetections, webcamActive,
                   captureOn, currentLevel, presentLevel, nextLevel, consecutiveFailures,
                   locState, quizProgress, lastQuizRequest, results, qip, sessLog,
                   submitReadings, sampleInFlight, levelVars, chatVars, storeVars>>

(***************************************************************************)
(* Quiz component: one tick of the emotion capture interval                *)
(***************************************************************************)
\* response.data.emotion.toLowerCase()
ToLowerCase(str) ==
    CASE str = "No Face Detected" -> "no face detected"
      [] str = "Landmark Error" -> "landmark error"
      [] str = "Coord Count Error" -> "coord count error"
      [] str = "Prediction Error" -> "prediction error"
      [] OTHER -> str

\* The interval callback up to its await: a screenshot of the rendered Webcam is
\* posted to the detection service.
EmotionSample ==
    \* the interval is running and webcamRef.current is the rendered Webcam
    /\ captureOn /\ QuizViewShown /\ webcamActive
    /\ sampleInFlight < MaxInFlight
    /\ Len(emotionDetections) + sampleInFlight < MaxReadings
    /\ sampleInFlight' = sampleInFlight + 1
    /\ UNCHANGED <<page, loading, error, showResults, questions, currentQuestion,
                   selectedAnswers, score, selectedEmotion, detectedEmotion,
                   emotionDetections, webcamActive, captureOn, currentLevel,
                   presentLevel, nextLevel, consecutiveFailures, locState, quizProgress,
                   lastQuizRequest, results, qip, sessLog, submitReadings, levelVars,
                   chatVars, storeVars>>

\* The rest of the interval callback, run when the response (an emotion, an
\* error payload, a timeout or a connection failure) arrives, whatever the
\* component shows by then; followed by the end-of-quiz effect, which depends on
\* emotionDetections.
EmotionResponse ==
    /\ page = "quiz" /\ sampleInFlight > 0
    /\ sampleInFlight' = sampleInFlight - 1
    /\ \E outcome \in SampleEmotions \cup {"failed"} :
        IF outcome = "failed"
        THEN /\ error' = "emotion"
             /\ UNCHANGED <<emotionDetections, detectedEmotion, selectedEmotion,
                            webcamActive>>
        ELSE LET readings == Append(emotionDetections, ToLowerCase(outcome))
             IN  /\ emotionDetections' = readings
                 /\ error' = "null"
                 /\ IF score # NoScore
                    THEN /\ detectedEmotion' = getMostFrequentEmotion(readings)
                         /\ selectedEmotion' = getMostFrequentEmotion(readings)
                         /\ webcamActive' = FALSE
                    ELSE /\ detectedEmotion' = ToLowerCase(outcome)
                         /\ selectedEmotion' = ToLowerCase(outcome)
                         /\ UNCHANGED webcamActive
    /\ UNCHANGED <<page, loading, showResults, questions, currentQuestion,
                   selectedAnswers, score, captureOn, currentLevel, presentLevel,
                   nextLevel, consecutiveFailures, locState, quizProgress,
                   lastQuizRequest, results, qip, sessLog, submitReadings, levelVars,
                   chatVars, storeVars>>

(***************************************************************************)
(* Quiz component: submission                                              *)
(***************************************************************************)

NextFailures_neverReset(prev, sc) == IF sc < 60 THEN prev + 1 ELSE prev

NextFailures(prev, sc) == IF sc < 60 THEN prev + 1 ELSE 0

\* A failure of the complete request ends the handler as a failure of the
\* results request does, one request earlier; the sessions take the latter.
SubmitOutcomes == {"ok", "resultsFailed"}

handleSubmit(outcome) ==
    /\ QuizViewShown /\ Len(questions) > 0
    /\ currentQuestion = Len(questions) - 1
    /\ Cardinality(Submissions(sessLog)) < MaxAttempts
    /\ LET calculatedScore == calculateScore(questions, selectedAnswers)
           calculatedNextLevel ==
               calculateNewLevel(currentLevel, calculatedScore, selectedEmotion)
           attempt == [score |-> calculatedScore, emotion |-> selectedEmotion,
                       presentLevel |-> currentLevel, nextLevel |-> calculatedNextLevel]
           saved == outcome = "ok" /\ QuizResultValid(attempt)
           \* the effects of the renders during and after the handler
           restart == CaptureRuns(questions, calculatedScore, FALSE)
           seen == emotionDetections # <<>>
           mostFrequent == getMostFrequentEmotion(emotionDetections)
       IN  /\ score' = calculatedScore
           /\ presentLevel' = currentLevel
           /\ nextLevel' = calculatedNextLevel
           /\ consecutiveFailures' = NextFailures(consecutiveFailures, calculatedScore)
           /\ qip' = IF outcome = "completeFailed" THEN qip
                     ELSE CompleteQuizInProgress(qip)
           /\ results' = IF saved THEN Append(results, attempt) ELSE results
           /\ showResults' = saved
           /\ error' = IF saved THEN error ELSE "submit"
           /\ loading' = FALSE
           /\ selectedEmotion' = IF seen THEN mostFrequent ELSE selectedEmotion
           /\ detectedEmotion' = IF restart THEN "null"
                                 ELSE IF seen THEN mostFrequent ELSE detectedEmotion
           /\ webcamActive' = IF restart THEN TRUE
                              ELSE IF seen THEN FALSE ELSE webcamActive
           /\ emotionDetections' = IF restart THEN <<>> ELSE emotionDetections
           /\ captureOn' = restart
           /\ sessLog' = Append(sessLog,
                  LogEntry("submit", 0, calculatedScore, selectedEmotion, currentLevel,
                           calculatedNextLevel, saved))
           /\ submitReadings' = emotionDetections
    /\ UNCHANGED <<page, questions, currentQuestion, selectedAnswers, currentLevel,
                   locState, quizProgress, lastQuizRequest, sampleInFlight, levelVars, chatVars, storeVars>>

HandleSubmit == \E outcome \in SubmitOutcomes : handleSubmit(outcome)

(***************************************************************************)
(* Quiz component: the results view                                        *)
(***************************************************************************)
showReviewContent(failures, sc) == failures >= 2 /\ sc < 60

handleNextQuiz_sameLevel(present, next) == present

handleNextQuiz_level(present, next) == next

handleNextQuiz(outcome, qs) ==
    /\ ResultsShown /\ ~showReviewContent(consecutiveFailures, score)
    /\ IF consecutiveFailures >= 3
       THEN /\ UnmountQuiz("review", 0)
            /\ sessLog' = Append(sessLog, LogEntry("review", 0, NoScore, "null", 0, 0,
                                                   TRUE))
            /\ UNCHANGED lastQuizRequest
       ELSE LET requested == handleNextQuiz_level(currentLevel, nextLevel)
            IN  /\ Cardinality(Fetches(sessLog)) < MaxAttempts
                /\ loading' = FALSE
                /\ error' = IF outcome = "ok" THEN "null" ELSE outcome
                /\ showResults' = FALSE
                /\ score' = NoScore
                /\ selectedAnswers' = <<>>
                /\ currentQuestion' = 0
                /\ emotionDetections' = <<>>
                /\ detectedEmotion' = "null"
                /\ selectedEmotion' = "neutral"
                /\ lastQuizRequest' = requested
                /\ questions' = IF outcome = "ok" THEN qs ELSE questions
                /\ currentLevel' = IF outcome = "ok" THEN nextLevel ELSE currentLevel
                /\ webcamActive' = TRUE
                /\ captureOn' = TRUE
                /\ sessLog' = Append(sessLog,
                                     LogEntry("fetch", quizEndpoint_level(requested),
                                              NoScore, "null", 0, 0, outcome = "ok"))
                /\ UNCHANGED <<page, locState, consecutiveFailures, presentLevel,
                               nextLevel, sampleInFlight>>
    /\ submitReadings' = <<>>
    /\ UNCHANGED <<quizProgress, results, qip, levelVars, chatVars, storeVars>>

HandleNextQuiz ==
    \E outcome \in {"ok", "quizFailed", "invalid"}, qs \in QuizPool :
        handleNextQuiz(outcome, qs)

handleReadContent ==
    /\ ResultsShown /\ showReviewContent(consecutiveFailures, score)
    /\ quizProgress' = <<>>
    /\ UnmountQuiz("review", nextLevel)
    /\ sessLog' = Append(sessLog, LogEntry("review", nextLevel, NoScore, "null", 0, 0,
                                           TRUE))
    /\ submitReadings' = <<>>
    /\ UNCHANGED <<lastQuizRequest, results, qip, levelVars, chatVars, storeVars>>

BackToSubject ==
    /\ \/ ResultsShown /\ ~showReviewContent(consecutiveFailures, score)
       \/ page = "review"
    /\ UnmountQuiz("subject", 0)
    /\ submitReadings' = <<>>
    /\ UNCHANGED <<quizProgress, lastQuizRequest, results, qip, sessLog, levelVars,
                   chatVars, storeVars>>

handleGoHome(saved) ==
    /\ page = "quiz" /\ (loading \/ QuizViewShown)
    /\ qip' = IF saved THEN SaveQuizInProgress(qip, currentLevel) ELSE qip
    /\ UnmountQuiz("dashboard", 0)
    /\ submitReadings' = <<>>
    /\ UNCHANGED <<quizProgress, lastQuizRequest, results, sessLog, levelVars, chatVars, storeVars>>

HandleGoHome == \E saved \in BOOLEAN : handleGoHome(saved)

(***************************************************************************)
(* PersonalizedContent component                                           *)
(***************************************************************************)
handleBackToQuiz_level(carried) == IF carried # 0 THEN carried ELSE 5

handleBackToQuiz ==
    /\ page = "review"
    /\ MountQuiz(handleBackToQuiz_level(locState))
    /\ UNCHANGED <<quizProgress, lastQuizRequest, results, qip, sessLog,
                   submitReadings, levelVars, chatVars, storeVars>>

(***************************************************************************)
(* Quiz component and Dashboard: leaving a quiz and coming back            *)
(***************************************************************************)
MaxReloads == 2

Reloads(log) == {i \in 1..Len(log) : log[i].kind = "reload"}

\* the beforeunload listener: what localStorage holds once it has run
handleBeforeUnload ==
    IF Len(questions) > 0 /\ ScoreFalsy(score)
    THEN <<[questions |-> questions, currentQuestion |-> currentQuestion,
            selectedAnswers |-> selectedAnswers, level |-> currentLevel]>>
    ELSE quizProgress

\* The browser reloads the quiz page (the reload button, or Try Again of the error
\* view): the listener runs, the document is dropped with the requests it was
\* waiting for, and the component mounts again. The history entry keeps
\* location.state.
Reload ==
    /\ page = "quiz"
    /\ Cardinality(Reloads(sessLog)) < MaxReloads
    /\ quizProgress' = handleBeforeUnload
    /\ MountQuiz(locState)
    /\ sessLog' = Append(sessLog,
                         LogEntry("reload", currentLevel, NoScore, "null", 0, 0,
                                  Len(questions) > 0 /\ ScoreFalsy(score)))
    /\ submitReadings' = <<>>
    /\ UNCHANGED <<lastQuizRequest, results, qip, levelVars, chatVars, storeVars>>

\* GET /api/quiz-in-progress as the Dashboard lists it
fetchInProgress(recs) == {i \in 1..Len(recs) : ~recs[i].attempted}

\* Dashboard: a card of the Continue Learning list is clicked
handleContinueLearning(quiz) ==
    /\ page = "dashboard"
    /\ quiz \in fetchInProgress(qip)
    /\ MountQuiz(qip[quiz].level)
    /\ submitReadings' = <<>>
    /\ UNCHANGED <<quizProgress, lastQuizRequest, results, qip, sessLog, levelVars,
                   chatVars, storeVars>>

ContinueLearning == \E quiz \in 1..Len(qip) : handleContinueLearning(quiz)

(***************************************************************************)
(* Chat backend: users, assignments, messages                              *)
(***************************************************************************)
Users == {"u1", "u2", "t1"}

\* User.role
Role(u) == IF u = "t1" THEN "therapist" ELSE "user"

\* the value of a property that an object does not have
Undefined == "undefined"

\* request bodies: content is a string, kept as its sequence of characters
Contents == {<<>>, <<" ">>, <<" ", "x">>}

\* String.prototype.trim, the setter of messageSchema.content
RECURSIVE TrimStart(_)
TrimStart(str) ==
    IF str # <<>> /\ Head(str) = " " THEN TrimStart(Tail(str)) ELSE str

RECURSIVE TrimEnd(_)
TrimEnd(str) ==
    IF str # <<>> /\ str[Len(str)] = " "
    THEN TrimEnd(SubSeq(str, 1, Len(str) - 1))
    ELSE str

Trim(str) == TrimEnd(TrimStart(str))

\* jwt.sign at login
LoginToken(u) == [email |-> u, role |-> Role(u)]

NoToken == [none |-> TRUE]

\* decoded.userId
DecodedUserId(decoded) ==
    IF "userId" \in DOMAIN decoded THEN decoded.userId ELSE Undefined

\* TherapistAssignment.findOne({$or: [...], status: 'active'}) of the chat endpoints
findAssignment(recs, currentUserId, userId) ==
    {a \in recs : /\ a.status = "active"
                  /\ \/ a.therapistId = currentUserId /\ a.userId = userId
                     \/ a.therapistId = userId /\ a.userId = currentUserId}

\* assignment.save() of a new TherapistAssignment: the unique index on
\* {therapistId, userId} refuses a second document of the pair (E11000); id
\* stands for the _id of the document.
insertAssignment_noIndex(recs, therapistId, userId) ==
    recs \cup {[therapistId |-> therapistId, userId |-> userId, status |-> "active",
                id |-> Cardinality(recs) + 1]}

insertAssignment(recs, therapistId, userId) ==
    IF \E a \in recs : a.therapistId = therapistId /\ a.userId = userId
    THEN recs
    ELSE recs \cup {[therapistId |-> therapistId, userId |-> userId,
                     status |-> "active", id |-> Cardinality(recs) + 1]}

\* POST /api/therapists/:therapistId/assign, answered 201
assign(caller, therapistId) ==
    /\ Role(caller) = "user"
    /\ Role(therapistId) = "therapist"
    /\ ~\E a \in assignments : a.therapistId = therapistId /\ a.userId = caller
    /\ assignments' = insertAssignment(assignments, therapistId, caller)
    /\ UNCHANGED <<messages, clients, sockets, httpLog, levelVars, quizVars, storeVars>>

Assign == \E caller \in Users, therapistId \in Users : assign(caller, therapistId)

\* new Message({...}) after the setters and defaults of messageSchema
NewMessage_read(senderId, receiverId, content) ==
    [senderId |-> senderId, receiverId |-> receiverId, content |-> Trim(content),
     read |-> TRUE]

NewMessage(senderId, receiverId, content) ==
    [senderId |-> senderId, receiverId |-> receiverId, content |-> Trim(content),
     read |-> FALSE]

\* message.save(): the required validators of messageSchema
MessageValid(message) == message.content # <<>>

\* clients.get(key): the index of the registered socket, 0 for undefined
ClientsGet(registry, key) ==
    IF \E c \in registry : c.key = key
    THEN (CHOOSE c \in registry : c.key = key).ws
    ELSE 0

\* clients.set(key, ws)
ClientsSet(registry, key, ws) ==
    {c \in registry : c.key # key} \cup {[key |-> key, ws |-> ws]}

\* clients.delete(key)
ClientsDelete(registry, key) == {c \in registry : c.key # key}

\* ws.send(JSON.stringify(frame)) on socket number target
WsSend(socks, target, frame) ==
    [socks EXCEPT ![target].inbox = Append(@, frame)]

MessageFrames(socks) ==
    {<<i, j>> \in (1..Len(socks)) \X (1..(MaxFrames + MaxMessages + 2)) :
        j <= Len(socks[i].inbox) /\ socks[i].inbox[j].type = "message"}

\* one HTTP exchange: the request, the answer, and the collections as the
\* request found them
Exchange(op, caller, other, content, status, returned, before, assigned) ==
    [op |-> op, caller |-> caller, other |-> other, content |-> content,
     status |-> status, returned |-> returned, before |-> before,
     assigned |-> assigned]

\* the status POST /api/chat/:userId answers with
chatPostStatus_notFound(content, assignment, message) ==
    IF content = <<>> THEN 400
    ELSE IF assignment = {} THEN 404
    ELSE IF ~MessageValid(message) THEN 500
    ELSE 201

chatPostStatus(content, assignment, message) ==
    IF content = <<>> THEN 400
    ELSE IF assignment = {} THEN 403
    ELSE IF ~MessageValid(message) THEN 500
    ELSE 201

\* POST /api/chat/:userId
chatPost(currentUserId, userId, content) ==
    /\ Len(messages) < MaxMessages
    /\ LET assignment == findAssignment(assignments, currentUserId, userId)
           message == NewMessage(currentUserId, userId, content)
           status == chatPostStatus(content, assignment, message)
           receiverWs == ClientsGet(clients, userId)
       IN  /\ messages' = IF status = 201 THEN Append(messages, message) ELSE messages
           /\ sockets' = IF status = 201 /\ receiverWs # 0 /\ sockets[receiverWs].open
                         THEN WsSend(sockets, receiverWs,
                                     [type |-> "message",
                                      message |-> [senderId |-> message.senderId,
                                                   receiverId |-> message.receiverId,
                                                   content |-> message.content]])
                         ELSE sockets
           /\ httpLog' = Exchange("send", currentUserId, userId, content, status, <<>>,
                                  messages, assignments)
    /\ UNCHANGED <<assignments, clients, levelVars, quizVars, storeVars>>

ChatPost ==
    \E currentUserId \in Users, userId \in Users, content \in Contents :
        chatPost(currentUserId, userId, content)

\* Message.find({$or: [...]}).sort({createdAt: 1})
chatGet_find(recs, currentUserId, userId) ==
    SelectSeq(recs, LAMBDA m :
        \/ m.senderId = currentUserId /\ m.receiverId = userId
        \/ m.senderId = userId /\ m.receiverId = currentUserId)

chatGet_markRead_bothWays(recs, currentUserId, userId) ==
    [i \in 1..Len(recs) |->
        IF {recs[i].senderId, recs[i].receiverId} = {userId, currentUserId}
        THEN [recs[i] EXCEPT !.read = TRUE]
        ELSE recs[i]]

\* Message.updateMany({senderId: userId, receiverId: currentUserId, read: false},
\*                    {read: true})
chatGet_markRead(recs, currentUserId, userId) ==
    [i \in 1..Len(recs) |->
        IF recs[i].senderId = userId /\ recs[i].receiverId = currentUserId
           /\ ~recs[i].read
        THEN [recs[i] EXCEPT !.read = TRUE]
        ELSE recs[i]]

\* GET /api/chat/:userId
chatGet(currentUserId, userId) ==
    /\ LET assignment == findAssignment(assignments, currentUserId, userId)
       IN  IF assignment = {}
           THEN /\ httpLog' = Exchange("fetch", currentUserId, userId, <<>>, 403, <<>>,
                                       messages, assignments)
                /\ UNCHANGED messages
           ELSE /\ httpLog' = Exchange("fetch", currentUserId, userId, <<>>, 200,
                                       chatGet_find(messages, currentUserId, userId),
                                       messages, assignments)
                /\ messages' = chatGet_markRead(messages, currentUserId, userId)
    /\ UNCHANGED <<assignments, clients, sockets, levelVars, quizVars, storeVars>>

ChatGet == \E currentUserId \in Users, userId \in Users : chatGet(currentUserId, userId)

(***************************************************************************)
(* Chat backend: the WebSocket server                                      *)
(***************************************************************************)
\* wss.on('connection'); email is the decoded token's, which the handler has at
\* hand but does not use
WsConnection(token) ==
    /\ Len(sockets) < MaxSockets
    /\ IF token = NoToken
       THEN \* ws.close(): the socket is never registered
            UNCHANGED <<sockets, clients>>
       ELSE LET userId == DecodedUserId(token)
                ws == Len(sockets) + 1
            IN  /\ clients' = ClientsSet(clients, userId, ws)
                /\ sockets' = Append(sockets,
                                 [email |-> token.email, userId |-> userId,
                                  open |-> TRUE,
                                  inbox |-> <<[type |-> "connection",
                                               message |-> "connected"]>>])
    /\ UNCHANGED <<assignments, messages, httpLog, levelVars, quizVars, storeVars>>

\* the users that open the chat page
ChatClients == {"t1", "u1"}

WsConnect ==
    \E token \in {LoginToken(u) : u \in ChatClients} \cup {NoToken} : WsConnection(token)

\* the frames a connected client sends: data.receiverId is a user id or absent
RelayReceivers == Users \cup {Undefined}

RelayMessages ==
    {[senderId |-> "u2", receiverId |-> "t1", content |-> <<"x">>],
     [senderId |-> "u1", receiverId |-> "t1", content |-> <<"x">>]}

\* ws.on('message') with data.type === 'message'
WsMessage(ws, receiverId, message) ==
    /\ sockets[ws].open
    /\ Cardinality(MessageFrames(sockets)) < MaxFrames
    /\ LET recipientWs == ClientsGet(clients, receiverId)
       IN  sockets' = IF recipientWs # 0 /\ sockets[recipientWs].open
                      THEN WsSend(sockets, recipientWs,
                                  [type |-> "message", message |-> message])
                      ELSE sockets
    /\ UNCHANGED <<assignments, messages, clients, httpLog, levelVars, quizVars, storeVars>>

WsRelay ==
    \E ws \in 1..Len(sockets), receiverId \in RelayReceivers, message \in RelayMessages :
        WsMessage(ws, receiverId, message)

\* ws.on('close')
WsClose(ws) ==
    /\ sockets[ws].open
    /\ sockets' = [sockets EXCEPT ![ws].open = FALSE]
    /\ clients' = ClientsDelete(clients, sockets[ws].userId)
    /\ UNCHANGED <<assignments, messages, httpLog, levelVars, quizVars, storeVars>>

WsDisconnect == \E ws \in 1..Len(sockets) : WsClose(ws)

(***************************************************************************)
(* Specifications                                                          *)
(***************************************************************************)
HarnessIdle == callArgs = <<>> /\ callRet = <<>>

QuizMounted(stateLevel) ==
    /\ page = "quiz"
    /\ locState = stateLevel
    /\ loading = TRUE
    /\ error = "null"
    /\ showResults = FALSE
    /\ questions = <<>>
    /\ currentQuestion = 0
    /\ selectedAnswers = <<>>
    /\ score = NoScore
    /\ selectedEmotion = "neutral"
    /\ detectedEmotion = "null"
    /\ emotionDetections = <<>>
    /\ webcamActive = FALSE
    /\ captureOn = FALSE
    /\ currentLevel = 5
    /\ presentLevel = 5
    /\ nextLevel = 5
    /\ consecutiveFailures = 0

QuizIdle ==
    /\ QuizMounted(0)
    /\ quizProgress = <<>>
    /\ lastQuizRequest = 0
    /\ results = <<>>
    /\ qip = <<>>
    /\ sessLog = <<>>
    /\ submitReadings = <<>>
    /\ sampleInFlight = 0

StoreIdle ==
    /\ userQuizzes = <<>>
    /\ requests = <<>>

ChatIdle ==
    /\ assignments = {}
    /\ messages = <<>>
    /\ clients = {}
    /\ sockets = <<>>
    /\ httpLog = Exchange("none", Undefined, Undefined, <<>>, 0, <<>>, <<>>, {})

\* ---- the level engine alone ----
InitLevel ==
    /\ callArgs \in [currentLevel : Levels, score : Scores, emotion : Emotions]
    /\ callRet = <<>>
    /\ QuizIdle
    /\ ChatIdle
    /\ StoreIdle

CallCalculateNewLevel ==
    /\ callRet = <<>>
    /\ callRet' = <<calculateNewLevel(callArgs.currentLevel, callArgs.score,
                                      callArgs.emotion)>>
    /\ UNCHANGED <<callArgs, quizVars, chatVars, storeVars>>

NextLevelEngine == CallCalculateNewLevel

SpecLevel == InitLevel /\ [][NextLevelEngine]_vars

\* ---- scoring alone ----
\* every quiz of up to MaxQuestions questions with every assignment of answers
SmallQuizzes ==
    UNION {[1..n -> Options] : n \in 1..MaxQuestions}

AnswerSheets(n) ==
    UNION {[idx -> Options] : idx \in SUBSET (0..(n - 1))}

\* longer quizzes, of which the first c questions are answered correctly, the
\* next one wrongly and the others not at all
WideInputs ==
    UNION {{[questions |-> [i \in 1..n |-> "A"],
             selectedAnswers |-> [i \in 0..Min(c, n - 1) |-> IF i < c THEN "A" ELSE "B"]] :
               c \in 0..n} : n \in 1..MaxWideQuestions}

InitScore ==
    /\ callArgs \in
          UNION {{[questions |-> qs, selectedAnswers |-> sheet] :
                      sheet \in AnswerSheets(Len(qs))} : qs \in SmallQuizzes}
          \cup WideInputs
    /\ callRet = <<>>
    /\ QuizIdle
    /\ ChatIdle
    /\ StoreIdle

CallCalculateScore ==
    /\ callRet = <<>>
    /\ callRet' = <<calculateScore(callArgs.questions, callArgs.selectedAnswers)>>
    /\ UNCHANGED <<callArgs, quizVars, chatVars, storeVars>>

NextScore == CallCalculateScore

SpecScore == InitScore /\ [][NextScore]_vars

\* ---- one quiz session, from the mount of the Quiz component ----
InitQuiz ==
    /\ HarnessIdle
    /\ QuizIdle
    /\ ChatIdle
    /\ StoreIdle

NextQuiz ==
    \/ FetchQuiz
    \/ AnswerSelect
    \/ NextQuestion
    \/ PreviousQuestion
    \/ EmotionSample
    \/ EmotionResponse
    \/ HandleSubmit
    \/ HandleNextQuiz
    \/ handleReadContent
    \/ BackToSubject
    \/ HandleGoHome
    \/ handleBackToQuiz

SpecQuiz == InitQuiz /\ [][NextQuiz]_vars

\* ---- quiz sessions of a learner whose camera gives no screenshot (no sample
\* ---- is sent), across reloads of the page and returns from the Dashboard ----
InitResume ==
    /\ HarnessIdle
    /\ QuizIdle
    /\ ChatIdle
    /\ StoreIdle

NextResume ==
    \/ FetchQuiz
    \/ AnswerSelect
    \/ NextQuestion
    \/ PreviousQuestion
    \/ HandleSubmit
    \/ HandleNextQuiz
    \/ handleReadContent
    \/ HandleGoHome
    \/ handleBackToQuiz
    \/ Reload
    \/ ContinueLearning

SpecResume == InitResume /\ [][NextResume]_vars

\* ---- the chat endpoints and the WebSocket server ----
InitChat ==
    /\ HarnessIdle
    /\ QuizIdle
    /\ ChatIdle
    /\ StoreIdle

NextChat ==
    \/ Assign
    \/ ChatPost
    \/ ChatGet
    \/ WsConnect
    \/ WsRelay
    \/ WsDisconnect

SpecChat == InitChat /\ [][NextChat]_vars

(***************************************************************************)
(* Backend: the quiz endpoints, one database operation per step            *)
(***************************************************************************)
\* Every request received so far has been answered.
NoneInFlight == \A i \in 1..Len(requests) : requests[i].pc = "done"

\* QuizInProgress.findOne({userId, subjectId, subtopicId, attempted: false}):
\* the position of the first such record, 0 for null.
QuizInProgressFindOne(recs) ==
    IF \E i \in 1..Len(recs) : ~recs[i].attempted
    THEN CHOOSE k \in 1..Len(recs) :
             ~recs[k].attempted /\ \A j \in 1..(k - 1) : recs[j].attempted
    ELSE 0

\* The levels a save request carries; 0 stands for a body without a level.
ProgressLevels == {0, 3, 7}

\* POST /api/quiz-in-progress up to the answer of findOne.
progressSave_find(level) ==
    /\ Len(requests) < MaxRequests
    /\ requests' = Append(requests,
           IF level = 0
           THEN [op |-> "save", level |-> level, found |-> 0, pc |-> "done",
                 status |-> 400, alone |-> NoneInFlight]
           ELSE [op |-> "save", level |-> level, found |-> QuizInProgressFindOne(qip),
                 pc |-> "save", status |-> 0, alone |-> NoneInFlight])
    /\ UNCHANGED <<qip, userQuizzes, componentVars, levelVars, chatVars>>

ProgressSaveFind == \E level \in ProgressLevels : progressSave_find(level)

\* POST /api/quiz-in-progress/complete up to the answer of findOne; the client
\* sends no level.
progressComplete_find ==
    /\ Len(requests) < MaxRequests
    /\ requests' = Append(requests,
           [op |-> "complete", level |-> 0, found |-> QuizInProgressFindOne(qip),
            pc |-> "save", status |-> 0, alone |-> NoneInFlight])
    /\ UNCHANGED <<qip, userQuizzes, componentVars, levelVars, chatVars>>

\* quiz.save() of either endpoint: an update of the document found, by its
\* _id, or the insertion of a new document.
progress_save(r) ==
    LET req == requests[r]
    IN  /\ req.pc = "save"
        /\ qip' = IF req.op = "save"
                  THEN IF req.found # 0
                       THEN [qip EXCEPT ![req.found].level = req.level]
                       ELSE Append(qip, [level |-> req.level, attempted |-> FALSE])
                  ELSE IF req.found # 0
                       THEN [qip EXCEPT ![req.found].attempted = TRUE]
                       ELSE Append(qip, [level |-> 1, attempted |-> TRUE])
        /\ requests' = [requests EXCEPT ![r].pc = "done", ![r].status = 200]
        /\ UNCHANGED <<userQuizzes, componentVars, levelVars, chatVars>>

ProgressSave == \E r \in 1..Len(requests) : progress_save(r)

\* The bodies posted to the quiz-results endpoint: what the Quiz component
\* sends, and two bodies any authenticated client can send.
ResultBodies ==
    { [score |-> 50, emotion |-> "happy", presentLevel |-> 5, nextLevel |-> 6],
      [score |-> 150, emotion |-> "sad", presentLevel |-> 0, nextLevel |-> 11],
      [score |-> 50, emotion |-> "bored", presentLevel |-> 5, nextLevel |-> 6] }

\* UserQuiz.findOne({userId, subjectId, subtopicId}): the first document in
\* natural order, 0 for null.
UserQuizFindOne(docs) == IF Len(docs) = 0 THEN 0 ELSE 1

\* POST .../quiz-results up to the answer of findOne.
quizResultsPost_find(body) ==
    /\ Len(requests) < MaxRequests
    /\ requests' = Append(requests,
           [op |-> "post", body |-> body, found |-> UserQuizFindOne(userQuizzes),
            pc |-> "save", status |-> 0])
    /\ UNCHANGED <<userQuizzes, quizVars, levelVars, chatVars>>

QuizResultsPostFind == \E body \in ResultBodies : quizResultsPost_find(body)

\* The subdocument pushed by request r; id stands for its _id.
QuizAttempt(r, body) ==
    [id |-> r, score |-> body.score, emotion |-> body.emotion,
     presentLevel |-> body.presentLevel, nextLevel |-> body.nextLevel]

\* userQuiz.results.push(...); await userQuiz.save(): validation, then a $push
\* on the document found or the insertion of the new document.
quizResultsPost_save(r) ==
    LET req == requests[r]
        attempt == QuizAttempt(r, req.body)
    IN  /\ req.pc = "save"
        /\ IF QuizResultValid(attempt)
           THEN /\ userQuizzes' =
                       IF req.found # 0
                       THEN [userQuizzes EXCEPT
                                 ![req.found] = Append(userQuizzes[req.found], attempt)]
                       ELSE Append(userQuizzes, <<attempt>>)
                /\ requests' = [requests EXCEPT ![r].pc = "done", ![r].status = 200]
           ELSE /\ UNCHANGED userQuizzes
                /\ requests' = [requests EXCEPT ![r].pc = "done", ![r].status = 500]
        /\ UNCHANGED <<quizVars, levelVars, chatVars>>

QuizResultsPostSave == \E r \in 1..Len(requests) : quizResultsPost_save(r)

\* The _ids of the attempts whose submission has been acknowledged.
Acknowledged ==
    {i \in 1..Len(requests) : requests[i].op = "post" /\ requests[i].status = 200}

\* GET .../quiz-results; acked records what had been acknowledged when the
\* fetch was served.
quizResultsGet ==
    /\ Len(requests) < MaxRequests
    /\ requests' = Append(requests,
           [op |-> "get", pc |-> "done", status |-> 200, acked |-> Acknowledged,
            returned |-> IF UserQuizFindOne(userQuizzes) = 0
                         THEN <<>>
                         ELSE userQuizzes[UserQuizFindOne(userQuizzes)]])
    /\ UNCHANGED <<userQuizzes, quizVars, levelVars, chatVars>>

\* ---- the quiz-in-progress endpoints under concurrent requests ----
InitProgress ==
    /\ HarnessIdle
    /\ QuizIdle
    /\ ChatIdle
    /\ StoreIdle

NextProgress ==
    \/ ProgressSaveFind
    \/ progressComplete_find
    \/ ProgressSave

SpecProgress == InitProgress /\ [][NextProgress]_vars

\* ---- the quiz-results endpoints under concurrent requests ----
InitResults ==
    /\ HarnessIdle
    /\ QuizIdle
    /\ ChatIdle
    /\ StoreIdle

NextResults ==
    \/ QuizResultsPostFind
    \/ QuizResultsPostSave
    \/ quizResultsGet

SpecResults == InitResults /\ [][NextResults]_vars

(***************************************************************************)
(* Backend: the assign endpoint, one database operation per step           *)
(***************************************************************************)
\* POST /api/therapists/:therapistId/assign up to the answer of
\* TherapistAssignment.findOne: the role check, the therapist lookup and the
\* check for an active assignment of the pair.
assign_find(caller, therapistId) ==
    LET existing == \E a \in assignments :
                        /\ a.therapistId = therapistId /\ a.userId = caller
                        /\ a.status = "active"
        answer == IF Role(caller) # "user" THEN 403
                  ELSE IF Role(therapistId) # "therapist" THEN 404
                  ELSE IF existing THEN 400
                  ELSE 0
    IN  /\ Len(requests) < MaxRequests
        /\ requests' = Append(requests,
               [op |-> "assign", caller |-> caller, therapistId |-> therapistId,
                existing |-> existing, pc |-> IF answer = 0 THEN "save" ELSE "done",
                status |-> answer])
        /\ UNCHANGED <<userQuizzes, chatVars, quizVars, levelVars>>

AssignFind == \E caller \in Users, therapistId \in Users : assign_find(caller, therapistId)

\* await assignment.save() and the answer: 201, or 400 on error code 11000.
assign_save(r) ==
    LET req == requests[r]
        saved == insertAssignment(assignments, req.therapistId, req.caller)
    IN  /\ req.pc = "save"
        /\ assignments' = saved
        /\ requests' = [requests EXCEPT ![r].pc = "done",
                                        ![r].status = IF saved = assignments THEN 400
                                                      ELSE 201]
        /\ UNCHANGED <<userQuizzes, messages, clients, sockets, httpLog, quizVars,
                       levelVars>>

AssignSave == \E r \in 1..Len(requests) : assign_save(r)

\* ---- the assign endpoint under concurrent requests ----
InitAssign ==
    /\ HarnessIdle
    /\ QuizIdle
    /\ ChatIdle
    /\ StoreIdle

NextAssign ==
    \/ AssignFind
    \/ AssignSave

SpecAssign == InitAssign /\ [][NextAssign]_vars

(***************************************************************************)
(* Backend: the chat history endpoint, one database operation per step     *)
(***************************************************************************)
\* The positions in the collection (standing for the _ids) of the messages
\* between the two users.
MessageIdsBetween(recs, currentUserId, userId) ==
    {i \in 1..Len(recs) :
        \/ recs[i].senderId = currentUserId /\ recs[i].receiverId = userId
        \/ recs[i].senderId = userId /\ recs[i].receiverId = currentUserId}

\* GET /api/chat/:userId up to the answer of Message.find: the assignment check
\* and the query whose result will be returned.
chatGet_query(currentUserId, userId) ==
    LET assignment == findAssignment(assignments, currentUserId, userId)
    IN  /\ Len(requests) < MaxFetches
        /\ requests' = Append(requests,
               IF assignment = {}
               THEN [op |-> "fetch", caller |-> currentUserId, other |-> userId,
                     returned |-> <<>>, returnedIds |-> {}, marked |-> {},
                     pc |-> "done", status |-> 403]
               ELSE [op |-> "fetch", caller |-> currentUserId, other |-> userId,
                     returned |-> chatGet_find(messages, currentUserId, userId),
                     returnedIds |-> MessageIdsBetween(messages, currentUserId, userId),
                     marked |-> {}, pc |-> "update", status |-> 0])
        /\ UNCHANGED <<userQuizzes, chatVars, quizVars, levelVars>>

ChatGetQuery ==
    \E currentUserId \in ChatClients, userId \in ChatClients :
        chatGet_query(currentUserId, userId)

\* await Message.updateMany(...) and res.json({ messages }); marked records the
\* documents the update modified.
chatGet_update(r) ==
    LET req == requests[r]
        updated == chatGet_markRead(messages, req.caller, req.other)
    IN  /\ req.pc = "update"
        /\ messages' = updated
        /\ requests' = [requests EXCEPT
               ![r].pc = "done", ![r].status = 200,
               ![r].marked = {i \in 1..Len(messages) : updated[i] # messages[i]}]
        /\ UNCHANGED <<userQuizzes, assignments, clients, sockets, httpLog, quizVars,
                       levelVars>>

ChatGetUpdate == \E r \in 1..Len(requests) : chatGet_update(r)

\* the sends that run beside the fetches
chatSend(currentUserId, userId, content) ==
    /\ chatPost(currentUserId, userId, content)
    /\ UNCHANGED requests

ChatSend ==
    \E currentUserId \in ChatClients, userId \in ChatClients, content \in Contents :
        chatSend(currentUserId, userId, content)

\* ---- the chat history endpoint beside concurrent sends ----
InitChatFetch ==
    /\ HarnessIdle
    /\ QuizIdle
    /\ ChatIdle
    /\ StoreIdle

NextChatFetch ==
    \/ Assign
    \/ ChatSend
    \/ ChatGetQuery
    \/ ChatGetUpdate

SpecChatFetch == InitChatFetch /\ [][NextChatFetch]_vars

(***************************************************************************)
(* Backend: the level the quiz endpoint derives from the previous attempt  *)
(***************************************************************************)
\* GET .../quiz without a level and with previousScore, previousEmotion and
\* previousLevel in the query: nextLevel as the handler computes it, each
\* adjustment clamped on its own, then the range check.
quizEndpoint_derivedLevel(previousScore, previousEmotion, previousLevel) ==
    LET afterScore == IF previousScore >= 80 THEN Min(previousLevel + 1, 10)
                      ELSE IF previousScore < 50 THEN Max(previousLevel - 1, 1)
                      ELSE previousLevel
        afterEmotion == IF previousEmotion \in {"confused", "sad"}
                        THEN Max(afterScore - 1, 1)
                        ELSE IF previousEmotion \in {"excited", "happy"}
                             THEN Min(afterScore + 1, 10)
                             ELSE afterScore
    IN  IF afterEmotion < 1 \/ afterEmotion > 10 THEN 5 ELSE afterEmotion

\* ---- the derived level alone ----
InitQuizEndpoint ==
    /\ callArgs \in [previousLevel : Levels, previousScore : Scores,
                     previousEmotion : Emotions]
    /\ callRet = <<>>
    /\ QuizIdle
    /\ ChatIdle
    /\ StoreIdle

CallQuizEndpoint ==
    /\ callRet = <<>>
    /\ callRet' = <<quizEndpoint_derivedLevel(callArgs.previousScore,
                                              callArgs.previousEmotion,
                                              callArgs.previousLevel)>>
    /\ UNCHANGED <<callArgs, quizVars, chatVars, storeVars>>

NextQuizEndpoint == CallQuizEndpoint

SpecQuizEndpoint == InitQuizEndpoint /\ [][NextQuizEndpoint]_vars

(***************************************************************************)
(* Performance page: calculatePerformanceScore and the statistics          *)
(***************************************************************************)
\* calculatePerformanceScore(level, score). The result can be a half (score *
\* 0.5 of an odd score), so it is given in half points: 150 stands for 75.
calculatePerformanceScore_truncated(level, sc) ==
    IF level >= 8
    THEN IF sc < 50 THEN 2 * 75 ELSE 2 * sc
    ELSE IF level >= 5
         THEN 2 * sc
         ELSE IF sc >= 80 THEN 2 * 40 ELSE 2 * (sc \div 2)

calculatePerformanceScore(level, sc) ==
    IF level >= 8
    THEN IF sc < 50 THEN 2 * 75 ELSE 2 * sc
    ELSE IF level >= 5
         THEN 2 * sc
         ELSE IF sc >= 80 THEN 2 * 40 ELSE sc

\* An entry of the quiz history as the Quiz component has it stored: the level
\* the quiz was taken at, the score, the emotion and the level computed from them.
HistoryEntry(level, sc, emotion) ==
    [presentLevel |-> level, score |-> sc, emotion |-> emotion,
     nextLevel |-> calculateNewLevel(level, sc, emotion)]

\* subtopicQuizzes.reduce((highest, quiz) => quiz.nextLevel > highest.nextLevel
\* ? quiz : highest, subtopicQuizzes[0]): the first entry of the highest nextLevel
highestLevelQuiz(quizzes) ==
    quizzes[CHOOSE k \in 1..Len(quizzes) :
                /\ \A j \in 1..Len(quizzes) : quizzes[j].nextLevel <= quizzes[k].nextLevel
                /\ \A j \in 1..(k - 1) : quizzes[j].nextLevel < quizzes[k].nextLevel]

isCompleted(quizzes) ==
    highestLevelQuiz(quizzes).nextLevel >= 8 /\ highestLevelQuiz(quizzes).score >= 80

subtopicPerformanceScores(quizzes) ==
    [i \in 1..Len(quizzes) |->
        calculatePerformanceScore(quizzes[i].nextLevel, quizzes[i].score)]

\* [...subjectPerformanceScores, ...subtopicPerformanceScores] over the
\* subtopics from position d on
RECURSIVE PerformancePool(_, _)
PerformancePool(subtopics, d) ==
    IF d > Len(subtopics) THEN <<>>
    ELSE subtopicPerformanceScores(subtopics[d]) \o PerformancePool(subtopics, d + 1)

RECURSIVE SumOf(_, _)
SumOf(pool, i) == IF i > Len(pool) THEN 0 ELSE pool[i] + SumOf(pool, i + 1)

\* The statistics fetchData computes from the subtopics of the subjects, each
\* given by its entries of the quiz history. The sum of the pool is a multiple
\* of 0.5 and the quotient is never within an ulp of a half it does not equal,
\* so Math.round(totalPerformanceScore / totalQuizzes) is the exact rounding.
PerformanceStats(subtopics) ==
    LET attempted == {d \in 1..Len(subtopics) : Len(subtopics[d]) > 0}
        completed == {d \in attempted : isCompleted(subtopics[d])}
        totalSubtopics == Cardinality(attempted)
        completedSubtopics == Cardinality(completed)
        pool == PerformancePool(subtopics, 1)
        totalQuizzes == Len(pool)
    IN  [totalSubtopics |-> totalSubtopics,
         completedSubtopics |-> completedSubtopics,
         overallProgress |-> IF totalSubtopics > 0
                             THEN RoundedPercent(completedSubtopics, totalSubtopics)
                             ELSE 0,
         averageScore |-> IF totalQuizzes > 0
                          THEN (SumOf(pool, 1) + totalQuizzes) \div (2 * totalQuizzes)
                          ELSE 0,
         pool |-> pool]

\* ---- calculatePerformanceScore alone ----
InitPerformanceScore ==
    /\ callArgs \in [level : Levels, score : Scores]
    /\ callRet = <<>>
    /\ QuizIdle
    /\ ChatIdle
    /\ StoreIdle

CallCalculatePerformanceScore ==
    /\ callRet = <<>>
    /\ callRet' = <<calculatePerformanceScore(callArgs.level, callArgs.score)>>
    /\ UNCHANGED <<callArgs, quizVars, chatVars, storeVars>>

NextPerformanceScore == CallCalculatePerformanceScore

SpecPerformanceScore == InitPerformanceScore /\ [][NextPerformanceScore]_vars

\* ---- the statistics of the performance page ----
HistoryEntries ==
    {HistoryEntry(c[1], c[2], e) :
        c \in {<<9, 40>>, <<2, 90>>, <<8, 90>>, <<5, 70>>}, e \in {"happy", "sad"}}

SubtopicHistories ==
    UNION {[1..n -> HistoryEntries] : n \in 0..MaxSubtopicAttempts}

\* long histories: n subtopics of one attempt each, the first c of them completed
WideHistories ==
    UNION {{[d \in 1..n |-> IF d <= c THEN <<HistoryEntry(8, 90, "happy")>>
                                       ELSE <<HistoryEntry(5, 70, "happy")>>] :
               c \in 0..n} : n \in 1..MaxWideSubtopics}

InitPerformance ==
    /\ callArgs \in
          {[subtopics |-> h] :
              h \in UNION {[1..n -> SubtopicHistories] : n \in 0..MaxSubtopics}
                    \cup WideHistories}
    /\ callRet = <<>>
    /\ QuizIdle
    /\ ChatIdle
    /\ StoreIdle

fetchData ==
    /\ callRet = <<>>
    /\ callRet' = <<PerformanceStats(callArgs.subtopics)>>
    /\ UNCHANGED <<callArgs, quizVars, chatVars, storeVars>>

NextPerformance == fetchData

SpecPerformance == InitPerformance /\ [][NextPerformance]_vars

\* ---- completion of a subtopic before and after one more attempt ----
CompletionEntries ==
    {HistoryEntry(level, sc, e) : level \in {8, 9}, sc \in {40, 70, 90},
                                  e \in {"happy", "sad"}}

InitCompletion ==
    /\ callArgs \in
          [quizzes : UNION {[1..n -> CompletionEntries] : n \in 1..MaxSubtopicAttempts},
           next : CompletionEntries]
    /\ callRet = <<>>
    /\ QuizIdle
    /\ ChatIdle
    /\ StoreIdle

\* isCompleted as fetchData computes it for the subtopic's entries of the quiz
\* history, and again once the next attempt has been pushed to the results.
CallIsCompleted ==
    /\ callRet = <<>>
    /\ callRet' = <<isCompleted(callArgs.quizzes),
                    isCompleted(Append(callArgs.quizzes, callArgs.next))>>
    /\ UNCHANGED <<callArgs, quizVars, chatVars, storeVars>>

SpecCompletion == InitCompletion /\ [][CallIsCompleted]_vars

(***************************************************************************)
(* Properties of the level engine (SpecLevel)                              *)
(***************************************************************************)
Returned == callRet # <<>>

\* C1: for every currentLevel in 1..10, score in 0..100 and emotion of the enum,
\* calculateNewLevel returns a level in 1..10.
C1_LevelInRange == Returned => callRet[1] \in 1..10

\* the floor is what keeps the result in range: level 1, a low score, sad
C1_Witness ==
    /\ Returned
    /\ callArgs.currentLevel = 1 /\ callArgs.score < 50 /\ callArgs.emotion = "sad"
    /\ callRet[1] = 1

ScoreDelta(sc) == IF sc >= 80 THEN 2 ELSE IF sc < 50 THEN -1 ELSE 0

EmotionDelta(emotion) ==
    IF emotion \in {"happy", "excited"} THEN 1
    ELSE IF emotion \in {"sad", "angry", "confused"} THEN -1
    ELSE 0

Clamp(lo, hi, x) == IF x < lo THEN lo ELSE IF x > hi THEN hi ELSE x

\* C2: calculateNewLevel returns clamp(1, 10, currentLevel + scoreDelta +
\* emotionDelta), scoreDelta being +2 from 80, -1 below 50, emotionDelta +1 for
\* happy/excited, -1 for sad/angry/confused; (5, 85, happy) gives 8 and
\* (2, 30, sad) gives 1.
C2_ClampOfDeltas ==
    Returned =>
        /\ callRet[1] = Clamp(1, 10, callArgs.currentLevel + ScoreDelta(callArgs.score)
                                      + EmotionDelta(callArgs.emotion))
        /\ (callArgs = [currentLevel |-> 5, score |-> 85, emotion |-> "happy"]
               => callRet[1] = 8)
        /\ (callArgs = [currentLevel |-> 2, score |-> 30, emotion |-> "sad"]
               => callRet[1] = 1)

\* the boundary score 80 earns the +2
C2_Witness ==
    /\ Returned
    /\ callArgs = [currentLevel |-> 5, score |-> 80, emotion |-> "happy"]
    /\ callRet[1] = 8

(***************************************************************************)
(* Properties of scoring (SpecScore)                                       *)
(***************************************************************************)
CorrectCount(qs, answers) ==
    Cardinality({i \in 1..Len(qs) : (i - 1) \in DOMAIN answers /\ answers[i - 1] = qs[i]})

\* a / b rounded to the nearest integer, halves upwards
RoundHalfUp(a, b) == (2 * a + b) \div (2 * b)

\* C6: for every quiz with at least one question and every assignment of answers,
\* the score is round(100 * correctCount / totalQuestions), and lies in 0..100.
C6_ScoreIsRoundedPercent ==
    Returned /\ "questions" \in DOMAIN callArgs =>
        /\ callRet[1] = RoundHalfUp(100 * CorrectCount(callArgs.questions,
                                                       callArgs.selectedAnswers),
                                    Len(callArgs.questions))
        /\ callRet[1] \in 0..100

(***************************************************************************)
(* Properties of the quiz session (SpecQuiz)                               *)
(***************************************************************************)
Attempts(log) == SelectSeq(log, LAMBDA e : e.kind = "submit")

\* the results view shows Review Content in place of Take Next Quiz
ReviewOffered == ResultsShown /\ showReviewContent(consecutiveFailures, score)

LastThreeFailed(log) ==
    LET a == Attempts(log)
    IN  Len(a) >= 3 /\ \A k \in 0..2 : a[Len(a) - k].score < 60

\* C3: the results view routes to the review content exactly when the three most
\* recent attempts, the submitted one included, all scored below 60; after one
\* or two such attempts the next quiz is still offered.
C3_ReviewAfterThreeFailures ==
    ResultsShown => (ReviewOffered <=> LastThreeFailed(sessLog))

\* the sub-60 submissions since the last passing submission or review
RECURSIVE TrailingFailures(_)
TrailingFailures(log) ==
    IF log = <<>> THEN 0
    ELSE LET e == log[Len(log)]
             rest == SubSeq(log, 1, Len(log) - 1)
         IN  IF e.kind = "submit"
             THEN (IF e.score < 60 THEN 1 + TrailingFailures(rest) ELSE 0)
             ELSE IF e.kind = "review" THEN 0
             ELSE TrailingFailures(rest)

\* C4: the consecutive-failure counter is 0 after a submission scoring 60 or more
\* and after the review content was taken, and one more after each submission
\* below 60; so a single failure after a pass or a review is not routed to the
\* review content.
C4_FailureCounter ==
    page = "quiz" =>
        /\ consecutiveFailures = TrailingFailures(sessLog)
        /\ (ResultsShown /\ TrailingFailures(sessLog) = 1 => ~ReviewOffered)

\* a first failure after the review content was taken
C4_Witness ==
    /\ ResultsShown /\ score < 60
    /\ consecutiveFailures = 1
    /\ \E i \in 1..Len(sessLog) : sessLog[i].kind = "review"

ValidReadings(readings) ==
    {i \in 1..Len(readings) : readings[i] \in Emotions}

Occurrences(readings, e) ==
    Cardinality({i \in ValidReadings(readings) : readings[i] = e})

\* the emotions no other valid reading outnumbers; neutral when there is none
MostFrequentReadings(readings) ==
    IF ValidReadings(readings) = {} THEN {"neutral"}
    ELSE {readings[i] : i \in
             {k \in ValidReadings(readings) :
                 \A o \in ValidReadings(readings) :
                     Occurrences(readings, readings[k]) >=
                         Occurrences(readings, readings[o])}}

LastEntry(log) == log[Len(log)]

\* C5: the emotion given to the level engine and stored with the attempt is the
\* most frequent valid reading of that quiz, neutral when there was none,
\* whatever the order of the readings.
C5_MostFrequentEmotionSubmitted ==
    page = "quiz" /\ sessLog # <<>> /\ LastEntry(sessLog).kind = "submit" =>
        /\ LastEntry(sessLog).emotion \in MostFrequentReadings(submitReadings)
        /\ LastEntry(sessLog).nextLevel \in
               {Clamp(1, 10, LastEntry(sessLog).presentLevel
                             + ScoreDelta(LastEntry(sessLog).score) + EmotionDelta(e)) :
                    e \in MostFrequentReadings(submitReadings)}

ActiveIn(recs, x, y) ==
    \E a \in recs :
        a.status = "active" /\ {a.therapistId, a.userId} = {x, y} /\ x # y

\* the users of a message frame have an active assignment
ActivePair(x, y) == ActiveIn(assignments, x, y)

\* the caller of the last exchange and the other user had an active assignment
\* when the request arrived
CallAssigned == ActiveIn(httpLog.assigned, httpLog.caller, httpLog.other)

Between(m, x, y) ==
    \/ m.senderId = x /\ m.receiverId = y
    \/ m.senderId = y /\ m.receiverId = x

\* only blanks, or nothing at all
Blank(content) == \A i \in 1..Len(content) : content[i] = " "

ChatCall == httpLog.op \in {"send", "fetch"}

\* C8: without an active assignment between the caller and the other user,
\* sending and fetching are both answered 403, no message is stored and no read
\* flag changes.
C8_UnassignedIsForbidden ==
    ChatCall /\ ~CallAssigned =>
        /\ httpLog.status = 403
        /\ messages = httpLog.before

\* C8 with the order of the checks of the send endpoint: a send without content
\* is answered 400 before the assignment is looked up; every other send, and
\* every fetch, is answered 403; nothing is stored or marked in either case.
C8_UnassignedIsRejected ==
    ChatCall /\ ~CallAssigned =>
        /\ httpLog.status =
               (IF httpLog.op = "send" /\ httpLog.content = <<>> THEN 400 ELSE 403)
        /\ messages = httpLog.before

\* a send with content between users that have no assignment
C8_Witness ==
    /\ httpLog.op = "send" /\ httpLog.content # <<>>
    /\ ~CallAssigned
    /\ httpLog.status = 403
    /\ messages = httpLog.before

\* C9: every message frame that reached a live connection, from the send
\* endpoint or from the WebSocket relay, is of a stored message between users
\* with an active assignment.
C9_DeliveredWasStoredAndAssigned ==
    \A ws \in 1..Len(sockets) :
        \A j \in 1..Len(sockets[ws].inbox) :
            LET frame == sockets[ws].inbox[j]
            IN  frame.type = "message" =>
                    /\ ActivePair(frame.message.senderId, frame.message.receiverId)
                    /\ \E k \in 1..Len(messages) :
                           /\ messages[k].senderId = frame.message.senderId
                           /\ messages[k].receiverId = frame.message.receiverId
                           /\ messages[k].content = frame.message.content

SendStored ==
    /\ httpLog.status = 201
    /\ Len(messages) = Len(httpLog.before) + 1
    /\ \A i \in 1..Len(httpLog.before) : messages[i] = httpLog.before[i]
    /\ LastEntry(messages).senderId = httpLog.caller
    /\ LastEntry(messages).receiverId = httpLog.other
    /\ LastEntry(messages).read = FALSE

FetchComplete ==
    /\ httpLog.status = 200
    /\ \A i \in 1..Len(httpLog.before) :
           Between(httpLog.before[i], httpLog.caller, httpLog.other) =>
               \E j \in 1..Len(httpLog.returned) : httpLog.returned[j] = httpLog.before[i]

\* a stored message stays stored, at its place, changing in its read flag only
MessagesKept ==
    /\ Len(messages') >= Len(messages)
    /\ \A i \in 1..Len(messages) :
           [messages'[i] EXCEPT !.read = FALSE] = [messages[i] EXCEPT !.read = FALSE]

\* C10: every send with non-empty content between an assigned pair succeeds,
\* with or without a live connection of the recipient, and stores the message
\* unread; every later fetch of either party returns it.
C10_SendSucceeds ==
    /\ (httpLog.op = "send" /\ CallAssigned
           /\ httpLog.content # <<>>) => SendStored
    /\ (httpLog.op = "fetch" /\ CallAssigned)
           => FetchComplete

\* C10 for content that is not blank: content of blanks only is trimmed to
\* nothing by the schema and fails its validation.
C10_NonBlankSendSucceeds ==
    /\ [](/\ (httpLog.op = "send" /\ CallAssigned
                 /\ ~Blank(httpLog.content)) => SendStored
          /\ (httpLog.op = "fetch" /\ CallAssigned)
                 => FetchComplete)
    /\ [][MessagesKept]_vars

\* the recipient, without a registered connection, fetches the unread message
C10_Witness ==
    /\ httpLog.op = "fetch" /\ httpLog.status = 200
    /\ ClientsGet(clients, httpLog.caller) = 0
    /\ \E j \in 1..Len(httpLog.returned) :
           /\ httpLog.returned[j].senderId = httpLog.other
           /\ httpLog.returned[j].receiverId = httpLog.caller
           /\ ~httpLog.returned[j].read

\* a send endpoint step that stored a message
SendStep == Len(messages') = Len(messages) + 1

\* C11: when a message is sent successfully and its recipient has an open
\* connection, opened with the recipient's login token, the message is forwarded
\* to that connection.
C11_ForwardedToLiveRecipient ==
    [][SendStep =>
          \A ws \in 1..Len(sockets) :
              (sockets[ws].open /\ sockets[ws].email = LastEntry(messages').receiverId)
              => /\ Len(sockets'[ws].inbox) = Len(sockets[ws].inbox) + 1
                 /\ LastEntry(sockets'[ws].inbox).type = "message"
                 /\ LastEntry(sockets'[ws].inbox).message.content
                        = LastEntry(messages').content]_vars

FromPeer(m) == m.senderId = httpLog.other /\ m.receiverId = httpLog.caller

\* C12: after a viewer fetched the history with an assigned peer, no message of
\* the peer to the viewer is unread, every other read flag is as it was, and a
\* repeated fetch has nothing left to change; a read flag never goes back.
C12_FetchMarksPeerMessagesRead ==
    /\ [](httpLog.op = "fetch" /\ CallAssigned =>
             /\ Len(messages) = Len(httpLog.before)
             /\ \A i \in 1..Len(httpLog.before) :
                    messages[i] = IF FromPeer(httpLog.before[i])
                                  THEN [httpLog.before[i] EXCEPT !.read = TRUE]
                                  ELSE httpLog.before[i]
             /\ \A i \in 1..Len(messages) : FromPeer(messages[i]) => messages[i].read)
    /\ [][\A i \in 1..Len(messages) : messages[i].read => messages'[i].read]_vars

\* a fetch that marked the peer's message and left the viewer's own unread
C12_Witness ==
    /\ httpLog.op = "fetch" /\ httpLog.status = 200
    /\ \E i, j \in 1..Len(messages) :
           /\ FromPeer(httpLog.before[i]) /\ ~httpLog.before[i].read /\ messages[i].read
           /\ messages[j].senderId = httpLog.caller /\ ~messages[j].read

(***************************************************************************)
(* Properties of the quiz endpoints (SpecProgress, SpecResults)            *)
(***************************************************************************)
Unattempted == {i \in 1..Len(qip) : ~qip[i].attempted}

\* Requests k and k + 1 are the two latest, both accepted saves of the same
\* level, each received while no other request was in flight.
SavedTwiceInARow(k) ==
    /\ k + 1 = Len(requests)
    /\ \A i \in {k, k + 1} :
           /\ requests[i].op = "save"
           /\ requests[i].pc = "done"
           /\ requests[i].status = 200
           /\ requests[i].alone
    /\ requests[k].level = requests[k + 1].level

\* C13: once the same save payload has been submitted twice in a row, exactly
\* one record of the triple has attempted = false, and it holds the submitted
\* level.
C13_RepeatedSaveLeavesOneRecord ==
    \A k \in 1..(Len(requests) - 1) :
        SavedTwiceInARow(k) =>
            /\ Cardinality(Unattempted) = 1
            /\ \A i \in Unattempted : qip[i].level = requests[k].level

AllAttempts(docs) == UNION {{docs[d][i] : i \in 1..Len(docs[d])} : d \in 1..Len(docs)}

IsPrefix(s, t) == Len(s) <= Len(t) /\ \A i \in 1..Len(s) : s[i] = t[i]

\* C14: the attempt list only grows, each acknowledged submission adds exactly
\* one attempt and leaves the earlier ones as they were, and every quiz-results
\* fetch returns every attempt acknowledged before it, whatever the interleaving
\* of the submissions.
C14_AcknowledgedAttemptsAreReturned ==
    /\ [][/\ \A d \in 1..Len(userQuizzes) :
                 d <= Len(userQuizzes') /\ IsPrefix(userQuizzes[d], userQuizzes'[d])
          /\ \A r \in 1..Len(requests) :
                 (requests[r].op = "post" /\ requests[r].status = 0
                      /\ requests'[r].status = 200)
                 => /\ Cardinality(AllAttempts(userQuizzes'))
                           = Cardinality(AllAttempts(userQuizzes)) + 1
                    /\ \E a \in AllAttempts(userQuizzes') : a.id = r]_vars
    /\ [](\A g \in 1..Len(requests) :
              requests[g].op = "get" =>
                  \A r \in requests[g].acked :
                      \E i \in 1..Len(requests[g].returned) :
                          requests[g].returned[i].id = r)

\* C15: every persisted attempt has a score in 0..100, an emotion of the
\* enumeration and both levels in 1..10.
C15_PersistedAttemptsInRange ==
    \A a \in AllAttempts(userQuizzes) :
        /\ a.score \in Scores
        /\ a.emotion \in Emotions
        /\ a.presentLevel \in Levels
        /\ a.nextLevel \in Levels

(***************************************************************************)
(* Properties of the performance page (SpecPerformanceScore,               *)
(* SpecPerformance)                                                        *)
(***************************************************************************)
\* C16: for every level in 1..10 and score in 0..100, calculatePerformanceScore
\* is 75 if level >= 8 and score < 50; the score if level >= 8 and score >= 50;
\* the score if 5 <= level <= 7; 40 if level < 5 and score >= 80; and half the
\* score if level < 5 and score < 80 (results and formula in half points).
C16_PerformanceScoreTable ==
    Returned =>
        LET level == callArgs.level
            sc == callArgs.score
        IN  /\ (level >= 8 /\ sc < 50) => callRet[1] = 2 * 75
            /\ (level >= 8 /\ sc >= 50) => callRet[1] = 2 * sc
            /\ (5 <= level /\ level <= 7) => callRet[1] = 2 * sc
            /\ (level < 5 /\ sc >= 80) => callRet[1] = 2 * 40
            /\ (level < 5 /\ sc < 80) => callRet[1] = sc

C16_Witness ==
    Returned /\ callArgs.level < 5 /\ callArgs.score = 71 /\ callRet[1] = 71

\* The position in the pool of entry i of subtopic d.
PoolIndex(subtopics, d, i) == Len(PerformancePool(subtopics, 1))
                                  - Len(PerformancePool(subtopics, d)) + i

\* C17: in the pool of averaged performance scores, an attempt taken at level 9
\* with score 40 contributes 75 and an attempt taken at level 2 with score 90
\* contributes 40, whatever its emotion (pool in half points).
C17_ContributionByLevelTaken ==
    Returned =>
        \A d \in 1..Len(callArgs.subtopics) :
            \A i \in 1..Len(callArgs.subtopics[d]) :
                LET quiz == callArgs.subtopics[d][i]
                    contribution == callRet[1].pool[PoolIndex(callArgs.subtopics, d, i)]
                IN  /\ (quiz.presentLevel = 9 /\ quiz.score = 40) => contribution = 2 * 75
                    /\ (quiz.presentLevel = 2 /\ quiz.score = 90) => contribution = 2 * 40

\* The subtopics with at least one attempt, and those of them whose attempt of
\* the highest nextLevel (the earliest such) has nextLevel >= 8 and score >= 80.
AttemptedSubtopics(subtopics) == {d \in 1..Len(subtopics) : Len(subtopics[d]) > 0}

CompletedSubtopics(subtopics) ==
    {d \in AttemptedSubtopics(subtopics) :
        \E k \in 1..Len(subtopics[d]) :
            /\ \A j \in 1..Len(subtopics[d]) :
                   subtopics[d][j].nextLevel <= subtopics[d][k].nextLevel
            /\ \A j \in 1..(k - 1) : subtopics[d][j].nextLevel < subtopics[d][k].nextLevel
            /\ subtopics[d][k].nextLevel >= 8
            /\ subtopics[d][k].score >= 80}

\* C18: the overall completion percentage is round(100 * C / A), A the number of
\* subtopics with an attempt and C the number of those that are completed;
\* subtopics without attempts count in neither, and without any attempt it is 0.
C18_OverallCompletion ==
    Returned =>
        LET A == Cardinality(AttemptedSubtopics(callArgs.subtopics))
            C == Cardinality(CompletedSubtopics(callArgs.subtopics))
        IN  /\ callRet[1].totalSubtopics = A
            /\ callRet[1].completedSubtopics = C
            /\ callRet[1].overallProgress = IF A = 0 THEN 0 ELSE RoundHalfUp(100 * C, A)

(***************************************************************************)
(* Properties of the error states of a quiz session (SpecQuiz)             *)
(***************************************************************************)
FetchErrors == FetchOutcomes \ {"ok"}

\* C19: once fetching the questions has failed, on the initial load or for the
\* next quiz, no later event of the session, an emotion sample in particular,
\* brings the quiz view or the results view back.
C19_FetchFailureIsTerminal ==
    [][(page = "quiz" /\ error \in FetchErrors)
           => ~(QuizViewShown' \/ ResultsShown')]_vars

\* C20: a failed emotion sample during a quiz leaves the quiz view in place with
\* the questions, the current question, the selected answers and the level
\* unchanged, so that the user can go on answering and submit.
C20_SampleFailureKeepsQuiz ==
    [][(QuizViewShown /\ sampleInFlight' < sampleInFlight /\ error' = "emotion")
           => /\ QuizViewShown'
              /\ questions' = questions
              /\ currentQuestion' = currentQuestion
              /\ selectedAnswers' = selectedAnswers
              /\ currentLevel' = currentLevel]_vars

(***************************************************************************)
(* Properties of a failed submission (SpecQuiz)                            *)
(***************************************************************************)
\* This step is a submission whose results were not saved.
SubmissionFailed ==
    /\ Len(sessLog') = Len(sessLog) + 1
    /\ LastEntry(sessLog').kind = "submit"
    /\ ~LastEntry(sessLog').ok

\* C21: when persisting a submission fails, no attempt is stored, and the
\* attempt - its answers, score and levels - is kept by the component, which
\* still shows the quiz so that the user can submit it again.
C21_FailedSubmissionCanBeResubmitted ==
    [][SubmissionFailed =>
          /\ results' = results
          /\ selectedAnswers' = selectedAnswers
          /\ questions' = questions
          /\ score' = LastEntry(sessLog').score
          /\ presentLevel' = LastEntry(sessLog').presentLevel
          /\ nextLevel' = LastEntry(sessLog').nextLevel
          /\ QuizViewShown']_vars

(***************************************************************************)
(* Properties of the assign endpoint (SpecAssign)                          *)
(***************************************************************************)
PairAssigned(recs, therapistId, userId) ==
    \E a \in recs : a.therapistId = therapistId /\ a.userId = userId

\* Request r is answered by this step.
AnsweredNow(r) ==
    /\ requests'[r].pc = "done"
    /\ (r > Len(requests) \/ requests[r].pc # "done")

\* C22: in every state, concurrent assign requests included, there is at most
\* one TherapistAssignment per (therapist, user) pair; and an assign request
\* answered while the pair is already assigned is answered 400 and leaves the
\* assignments unchanged.
C22_OneAssignmentPerPair ==
    /\ [](\A a, b \in assignments :
              (a.therapistId = b.therapistId /\ a.userId = b.userId) => a = b)
    /\ [][\A r \in 1..Len(requests') :
              (AnsweredNow(r) /\ PairAssigned(assignments, requests'[r].therapistId,
                                              requests'[r].caller))
              => requests'[r].status = 400 /\ assignments' = assignments]_vars

\* two requests of one pair both found no assignment; one was answered 201 and
\* the other 400
C22_Witness ==
    \E r1, r2 \in 1..Len(requests) :
        /\ r1 # r2
        /\ requests[r1].caller = requests[r2].caller
        /\ requests[r1].therapistId = requests[r2].therapistId
        /\ ~requests[r1].existing /\ ~requests[r2].existing
        /\ requests[r1].status = 201 /\ requests[r2].status = 400
        /\ Cardinality(assignments) = 1

(***************************************************************************)
(* Properties of the connection registry (SpecChat)                        *)
(***************************************************************************)
OpenSocketsOf(user) ==
    {ws \in 1..Len(sockets) : sockets[ws].open /\ sockets[ws].email = user}

\* C23: under every interleaving of connects and disconnects, a lookup of a
\* user in the registry returns a connection exactly when that user has an open
\* connection, and the connection returned is an open connection of that user.
C23_RegistryMatchesConnections ==
    \A user \in Users :
        /\ (ClientsGet(clients, user) # 0) <=> (OpenSocketsOf(user) # {})
        /\ ClientsGet(clients, user) # 0 => ClientsGet(clients, user) \in OpenSocketsOf(user)

(***************************************************************************)
(* Properties of the chat history endpoint (SpecChatFetch)                 *)
(***************************************************************************)
\* C28: under every interleaving of a history fetch with sends, every message
\* the fetch marks as read is in the list the same fetch returns.
C28_MarkedReadWasReturned ==
    \A r \in 1..Len(requests) :
        (requests[r].op = "fetch" /\ requests[r].pc = "done")
            => requests[r].marked \subseteq requests[r].returnedIds

(***************************************************************************)
(* Properties of the derived level (SpecQuizEndpoint)                      *)
(***************************************************************************)
\* C29: for every previousLevel in 1..10, score in 0..100 and emotion of the
\* enumeration, the level the quiz endpoint derives from them equals the level
\* calculateNewLevel returns for the same inputs.
C29_EndpointLevelIsEngineLevel ==
    Returned =>
        callRet[1] = calculateNewLevel(callArgs.previousLevel, callArgs.previousScore,
                                       callArgs.previousEmotion)

(***************************************************************************)
(* Properties of subtopic completion (SpecCompletion)                      *)
(***************************************************************************)
\* C30: a subtopic that counts as completed for an attempt history still counts
\* as completed after a further attempt is appended to that history.
C30_CompletionIsMonotone ==
    Returned => (callRet[1] => callRet[2])

(***************************************************************************)
(* Properties of the in-progress records (SpecProgress)                    *)
(***************************************************************************)
\* C27: in every state, interleaved save requests included, at most one record
\* of the triple has attempted = false, so that one complete request leaves none.
C27_AtMostOneInProgressRecord ==
    Cardinality(Unattempted) <= 1

(***************************************************************************)
(* Properties of the emotion capture after a submission (SpecQuiz)         *)
(***************************************************************************)
\* C25: while the results of a submitted quiz are shown, whatever its score, the
\* capture interval is stopped and the readings are those collected when the quiz
\* was submitted: none was dropped and none was recorded since.
C25_NoSamplingAfterSubmission ==
    ResultsShown => (~captureOn /\ emotionDetections = submitReadings)

(***************************************************************************)
(* Properties of leaving and resuming a quiz (SpecResume)                  *)
(***************************************************************************)
\* C24: once a submission was saved and its results are shown, or the progress
\* was reset by going to the review content, nothing is left to resume: the
\* browser holds no saved progress of the subtopic and the server lists no
\* record with attempted = false for the triple.
C24_NothingToResumeAfterSubmission ==
    (ResultsShown \/ page = "review") =>
        (quizProgress = <<>> /\ fetchInProgress(qip) = {})

\* the quiz page was left with its progress saved and is loading again
Resuming ==
    /\ page = "quiz" /\ loading
    /\ sessLog # <<>> /\ LastEntry(sessLog).kind = "reload" /\ LastEntry(sessLog).ok
    /\ quizProgress # <<>>

\* C26: when a quiz whose progress was saved is resumed, the quiz shown has the
\* level, the questions, the current question index and the selected answers
\* that were saved.
C26_ResumeRestoresSavedQuiz ==
    [][(Resuming /\ page' = "quiz" /\ ~loading' /\ error' = "null") =>
          /\ currentLevel' = quizProgress[1].level
          /\ questions' = quizProgress[1].questions
          /\ currentQuestion' = quizProgress[1].currentQuestion
          /\ selectedAnswers' = quizProgress[1].selectedAnswers]_vars

====
